---- MODULE Spec2Model ----
(***************************************************************************)
(* A state-machine model of pyfixest's Feols class (src/pyfixest/feols.py): *)
(* construction, the attributes set from outside the class, get_fit,        *)
(* get_vcov, get_inference and get_Ftest.                                   *)
(*                                                                         *)
(* Matrices are modelled by what they are built from, not by their         *)
(* floating-point entries: a VCOV is a record naming its regime, the       *)
(* design it was computed on, the observation groups that entered it and   *)
(* the small-sample correction it was scaled with.                         *)
(*                                                                         *)
(* Python's None is "None" for string-valued fields, <<>> for optional     *)
(* numbers and booleans (<<v>> when set), and a record of kind "None" for  *)
(* matrices; an attribute that was never assigned has kind "Unset".        *)
(***************************************************************************)
EXTENDS Integers, Sequences, FiniteSets, TLC

(* ------------------------------ bounds -------------------------------- *)

\* The largest number of rows of an input array (and so of observations).
MaxN == 2
RowCounts == (MaxN - 1)..MaxN

(* ------------------------------ values -------------------------------- *)

Some(v) == <<v>>
NoneOpt == <<>>

\* An argument of the constructor: a 2-D numpy array has isarr and ndim = 2.
\* rank_ok and lev_one abstract the entries of the array: whether its columns
\* are linearly independent (so that its cross-product can be inverted), and
\* whether some row i has leverage h_i = X_i (X'X)^-1 X_i' = 1.
Arr(nd, r, c, full, lev) ==
  [isarr |-> TRUE, ndim |-> nd, rows |-> r, cols |-> c, rank_ok |-> full,
   lev_one |-> lev]
NotArr ==
  [isarr |-> FALSE, ndim |-> 0, rows |-> 0, cols |-> 0, rank_ok |-> FALSE,
   lev_one |-> FALSE]

VectorInputs ==
  {NotArr} \cup {Arr(nd, r, 1, TRUE, r = 1) : nd \in 1..2, r \in RowCounts}
\* Designs with a single regressor column (k = 1), of full rank or not. The
\* leverages of a full-rank design sum to k: the only row of a one-row design
\* has leverage 1, and the rows of a longer design have leverage below 1 ...
DesignInputs ==
  {NotArr} \cup {Arr(1, r, 1, TRUE, r = 1) : r \in RowCounts}
  \cup {Arr(2, r, 1, FALSE, FALSE) : r \in RowCounts}
  \cup {Arr(2, r, 1, TRUE, r = 1) : r \in RowCounts}
\* ... unless all other rows are zero (X = [[1], [0]]).
LeverageOneDesigns == {Arr(2, r, 1, TRUE, TRUE) : r \in RowCounts}

\* A value of the cluster column: a number, a string, or a missing value.
Lab(t, v) == [t |-> t, v |-> v]
NaN == Lab("nan", 0)
ClusterLabels == {Lab("int", 0), Lab("int", 1), Lab("str", 0), NaN}

\* The dataset: one column, named "c", of cluster labels (one per row), or None.
NoData == [isNone |-> TRUE, c |-> <<>>]
DataFrame(col) == [isNone |-> FALSE, c |-> col]
Columns(data) == {"c"}

\* The vcov argument of get_vcov: a string, a one-entry dict, a list, or
\* something else. An entry of a dict or list is a string or not.
StrVal(s) == [isstr |-> TRUE, s |-> s]
NonStrVal == [isstr |-> FALSE, s |-> ""]
StrReq(s) == [t |-> "str", name |-> s, items |-> <<>>]
DictReq(k, v) == [t |-> "dict", name |-> k, items |-> <<v>>]
ListReq(items) == [t |-> "list", name |-> "", items |-> items]
OtherReq == [t |-> "other", name |-> "", items |-> <<>>]
NoReq == [t |-> "none", name |-> "", items |-> <<>>]

VcovTags == {"iid", "hetero", "HC1", "HC2", "HC3"}
CrvKeys == {"CRV1", "CRV3"}

VcovArgs ==
  {StrReq(s) : s \in VcovTags \cup {"HC4"}}
  \cup {DictReq(k, StrVal("c")) : k \in CrvKeys \cup {"CRV2"}}
  \cup {DictReq("CRV1", StrVal("z")), DictReq("CRV3", NonStrVal)}
  \cup {ListReq(<<StrVal("c")>>), ListReq(<<StrVal("z")>>), ListReq(<<NonStrVal>>)}
  \cup {OtherReq}

\* The small-sample correction and the VCOV matrix, by what they were built
\* from. divisor is the least number the scores were divided by: "none" when
\* they were not rescaled, "positive", or "zero".
NoSsc == [vcov_type |-> "None", N |-> 0, k |-> 0, G |-> 0]
NoMat ==
  [kind |-> "None", design |-> "", iv |-> FALSE, groups |-> <<>>, ssc |-> NoSsc,
   divisor |-> "none"]
UnsetMat ==
  [kind |-> "Unset", design |-> "", iv |-> FALSE, groups |-> <<>>, ssc |-> NoSsc,
   divisor |-> "none"]
Mat(kind, design, iv, groups, ssc) ==
  [kind |-> kind, design |-> design, iv |-> iv, groups |-> groups, ssc |-> ssc,
   divisor |-> "none"]

\* The model a call of an ancillary method ran on: whether get_fit had fitted
\* it, whether _fml and _data were set, and its flags.
CallState(fitted, has_fml, fixef, iv, meth) ==
  [fitted |-> fitted, has_fml |-> has_fml, has_fixef |-> fixef, is_iv |-> iv,
   method |-> meth]
NoCallState == CallState(FALSE, FALSE, FALSE, FALSE, "None")

\* A predict call: the model it ran on, whether new data was given, the type
\* argument, the exception raised and the array returned ("None" when it raised).
PredictCall(on, newdata, type, e, out) ==
  [called |-> TRUE, on |-> on, newdata |-> newdata, type |-> type, err |-> e,
   y_hat |-> out]
NoPredict ==
  [called |-> FALSE, on |-> NoCallState, newdata |-> FALSE, type |-> "",
   err |-> "None", y_hat |-> "None"]

\* A get_wildboottest call: its param and cluster arguments, the exception
\* raised, the subroutine invoked ("None", "WildboottestHC", "WildboottestCL"),
\* the restriction vector R passed to it, the full-enumeration flag it reported,
\* whether a warning was issued and whether the result record was returned.
BootCall(on, param, cluster, e, sub, R, reported, warned, returned) ==
  [called |-> TRUE, on |-> on, param |-> param, cluster |-> cluster, err |-> e,
   sub |-> sub, R |-> R, reported |-> reported, warned |-> warned,
   returned |-> returned]
NoBoot ==
  [called |-> FALSE, on |-> NoCallState, param |-> "", cluster |-> "None",
   err |-> "None", sub |-> "None", R |-> <<>>, reported |-> FALSE, warned |-> FALSE,
   returned |-> FALSE]

(* ------------------------------- state -------------------------------- *)

VARIABLES
  obj,            \* "none" before construction, "alive" once __init__ returned
  init_err,       \* the exception __init__ raised, or "None"
  Y, X, weights,  \* the arrays the object holds
  N, k,           \* X.shape
  method, is_iv, support_iid_inference, support_crv3_inference,
  data, has_fixef, enriched,
  beta_hat,       \* "Unset" until get_fit has assigned it
  tXZ,            \* "Unset", "None" (OLS) or "set" (IV)
  fit_err,
  vcov_type, vcov_type_detail, is_clustered, clustervar, G, ssc, vcov,
  vcov_arg,       \* the argument of the last get_vcov call that reached validation
  vcov_err, vcov_ops,   \* the last get_vcov call: its exception, its steps
  se, df, pvalue_dist, inf_err,   \* get_inference: _se, the df it computed, the
                                  \* distribution of _pvalue, its exception
  inference_current,  \* no get_vcov call has followed the last get_inference call
  F_stat,         \* get_Ftest: the VCOV matrix F_stat was computed with
  ftest_vcov,     \* the local variable vcov of the last get_Ftest call that completed
  ftest_err,      \* the exception of the last get_Ftest call
  predicted,      \* the last predict call: its arguments, exception and result
  coefnames,      \* _coefnames: None, or the coefficient names set from outside
  boot,           \* the last get_wildboottest call
  fml_fixef,      \* the fixed-effects part of _fml: its variables, in the order
                  \* of the formula, each with its number of dummy columns
  fixef_dict, sumFE,   \* fixef_dict is <<>> until fixef assigns it (<<dict>>)
  fixef_err       \* the exception of the last fixef call, "Unset" before it

ctor_vars == <<obj, init_err, Y, X, weights, N, k, method, is_iv,
               support_iid_inference, support_crv3_inference>>
enrich_vars == <<data, has_fixef, enriched>>
fit_vars == <<beta_hat, tXZ, fit_err>>
vcov_fields == <<vcov_type, vcov_type_detail, is_clustered, clustervar, G, ssc, vcov>>
vcov_call == <<vcov_arg, vcov_err, vcov_ops>>
inf_vars == <<se, df, pvalue_dist, inf_err, inference_current>>
ftest_vars == <<F_stat, ftest_vcov, ftest_err>>
boot_vars == <<coefnames, boot>>
fixef_vars == <<fml_fixef, fixef_dict, sumFE, fixef_err>>
anc_vars == <<predicted, boot_vars, fixef_vars>>
vars == <<ctor_vars, enrich_vars, fit_vars, vcov_fields, vcov_call, inf_vars, ftest_vars,
          anc_vars>>

(* --------------------------- construction ----------------------------- *)

\* _feols_input_checks: the exception it raises, or "None".
feols_input_checks(y, x, w) ==
  IF ~y.isarr THEN "TypeError"
  ELSE IF ~x.isarr THEN "TypeError"
  ELSE IF ~w.isarr THEN "TypeError"
  ELSE IF y.ndim # 2 THEN "ValueError"
  ELSE IF x.ndim # 2 THEN "ValueError"
  ELSE IF w.ndim # 2 THEN "ValueError"
  ELSE "None"

\* The attributes Feols.__init__ gives every instance.
FeolsAttrs ==
  [method |-> "feols", is_iv |-> FALSE, support_iid |-> TRUE, support_crv3 |-> TRUE]

\* The model families sharing this code: the base class, and the subclasses
\* (IV, non-linear) that overwrite these attributes after the base constructor.
FeivAttrs ==
  [method |-> "feiv", is_iv |-> TRUE, support_iid |-> TRUE, support_crv3 |-> TRUE]
FepoisAttrs ==
  [method |-> "fepois", is_iv |-> FALSE, support_iid |-> FALSE, support_crv3 |-> FALSE]
Families == {FeolsAttrs, FeivAttrs, FepoisAttrs}

Init ==
  /\ obj = "none" /\ init_err = "None"
  /\ Y = NotArr /\ X = NotArr /\ weights = NotArr
  /\ N = 0 /\ k = 0
  /\ method = "None" /\ is_iv = FALSE
  /\ support_iid_inference = FALSE /\ support_crv3_inference = FALSE
  /\ data = NoData /\ has_fixef = FALSE /\ enriched = FALSE
  /\ beta_hat = "Unset" /\ tXZ = "Unset" /\ fit_err = "None"
  /\ vcov_type = "None" /\ vcov_type_detail = "None" /\ is_clustered = NoneOpt
  /\ clustervar = "None" /\ G = NoneOpt /\ ssc = NoSsc /\ vcov = UnsetMat
  /\ vcov_arg = NoReq /\ vcov_err = "None" /\ vcov_ops = <<>>
  /\ se = "Unset" /\ df = NoneOpt /\ pvalue_dist = "None" /\ inf_err = "None"
  /\ inference_current = FALSE
  /\ F_stat = UnsetMat /\ ftest_vcov = UnsetMat /\ ftest_err = "None"
  /\ predicted = NoPredict
  /\ coefnames = NoneOpt /\ boot = NoBoot
  /\ fml_fixef = <<>> /\ fixef_dict = NoneOpt /\ sumFE = "None"
  /\ fixef_err = "Unset"

\* Feols.__init__(Y, X, weights), followed by the attribute overrides of the
\* family's own constructor.
Construct(y, x, w, fam) ==
  /\ obj = "none" /\ init_err = "None"
  /\ LET e == feols_input_checks(y, x, w) IN
     IF e # "None"
     THEN /\ init_err' = e
          /\ UNCHANGED <<obj, Y, X, weights, N, k, method, is_iv,
                         support_iid_inference, support_crv3_inference>>
     ELSE /\ obj' = "alive"
          /\ Y' = y /\ X' = x /\ weights' = w
          /\ N' = x.rows /\ k' = x.cols
          /\ method' = fam.method /\ is_iv' = fam.is_iv
          /\ support_iid_inference' = fam.support_iid
          /\ support_crv3_inference' = fam.support_crv3
          /\ UNCHANGED init_err
  /\ UNCHANGED <<enrich_vars, fit_vars, vcov_fields, vcov_call, inf_vars, ftest_vars, anc_vars>>

\* The attributes set from outside the class after construction (_data,
\* _has_fixef): a dataset with one row per observation.
Enrich(col, fx) ==
  /\ obj = "alive" /\ ~enriched /\ vcov_arg = NoReq
  /\ Len(col) = N
  /\ data' = DataFrame(col) /\ has_fixef' = fx /\ enriched' = TRUE
  /\ UNCHANGED <<ctor_vars, fit_vars, vcov_fields, vcov_call, inf_vars, ftest_vars, anc_vars>>

(* ------------------------------ get_fit ------------------------------- *)

\* Feols.get_fit on design x (with Z = x) and response y: the exception raised,
\* or "None". Z.T @ Y needs equal row counts; inv(Z.T @ X) needs full rank.
get_fit_err(y, x) ==
  IF x.rows # y.rows THEN "ValueError"
  ELSE IF ~x.rank_ok THEN "LinAlgError"
  ELSE "None"

\* The IV family's get_fit: it also stores the cross-moments X'Z and (Z'Z)^-1.
feiv_get_fit_tXZ == "set"

GetFit ==
  /\ obj = "alive"
  /\ LET e == get_fit_err(Y, X) IN
     /\ fit_err' = e
     /\ IF e = "None"
        THEN /\ beta_hat' = "set"
             /\ tXZ' = IF is_iv THEN feiv_get_fit_tXZ ELSE "None"
        ELSE UNCHANGED <<beta_hat, tXZ>>
  /\ UNCHANGED <<ctor_vars, enrich_vars, vcov_fields, vcov_call, inf_vars, ftest_vars, anc_vars>>

(* ------------------------- request validation ------------------------- *)

\* check_vcov_input without the tests that the named columns are in the dataset.
check_vcov_input_any_column(arg, d) ==
  IF arg.t \notin {"dict", "str", "list"} THEN "AssertionError"
  ELSE IF arg.t = "dict" THEN
    IF Len(arg.items) = 0 THEN "IndexError"
    ELSE IF arg.name \notin {"CRV1", "CRV3"} THEN "AssertionError"
    ELSE IF ~arg.items[1].isstr THEN "AssertionError"
    ELSE "None"
  ELSE IF arg.t = "list" THEN
    IF \E i \in 1..Len(arg.items) : ~arg.items[i].isstr THEN "AssertionError"
    ELSE "None"
  ELSE IF arg.name \notin {"iid", "hetero", "HC1", "HC2", "HC3"} THEN "AssertionError"
  ELSE "None"

\* _check_vcov_input(vcov, data): the exception raised, or "None". The asserts
\* run in the order of the code; data.columns is only evaluated where an assert
\* reaches it (AttributeError when the dataset is None), and the first key of an
\* empty dict does not exist (IndexError).
check_vcov_input(arg, d) ==
  IF arg.t \notin {"dict", "str", "list"} THEN "AssertionError"
  ELSE IF arg.t = "dict" THEN
    IF Len(arg.items) = 0 THEN "IndexError"
    ELSE IF arg.name \notin {"CRV1", "CRV3"} THEN "AssertionError"
    ELSE IF ~arg.items[1].isstr THEN "AssertionError"
    ELSE IF d.isNone THEN "AttributeError"
    ELSE IF arg.items[1].s \notin Columns(d) THEN "AssertionError"
    ELSE "None"
  ELSE IF arg.t = "list" THEN
    IF \E i \in 1..Len(arg.items) : ~arg.items[i].isstr THEN "AssertionError"
    ELSE IF Len(arg.items) = 0 THEN "None"
    ELSE IF d.isNone THEN "AttributeError"
    ELSE IF \E i \in 1..Len(arg.items) : arg.items[i].s \notin Columns(d)
      THEN "AssertionError"
    ELSE "None"
  ELSE IF arg.name \notin {"iid", "hetero", "HC1", "HC2", "HC3"} THEN "AssertionError"
  ELSE "None"

(* ------------------------- request resolution ------------------------- *)

Deparsed(e, vt, det, clu, cv) ==
  [err |-> e, vcov_type |-> vt, vcov_type_detail |-> det,
   is_clustered |-> clu, clustervar |-> cv]
DeparseRaises(e) == Deparsed(e, "None", "None", NoneOpt, "None")

\* hc23_not_supported without the fixed-effects test.
hc23_not_supported_iv_only(detail, fixef, iv) ==
  detail \in {"HC2", "HC3"} /\ iv

\* The unsupported combinations of _deparse_vcov_input: HC2 and HC3 with fixed
\* effects, and with IV estimation.
hc23_not_supported(detail, fixef, iv) ==
  detail \in {"HC2", "HC3"} /\ (fixef \/ iv)

\* _deparse_vcov_input(vcov, has_fixef, is_iv): the tuple it returns, or the
\* exception it raises. For a list, vcov_type_detail is the list itself, which
\* matches no branch: vcov_type and is_clustered are never bound, and reading
\* is_clustered raises UnboundLocalError (as for a string or key no branch names).
deparse_vcov_input(arg, fixef, iv) ==
  IF arg.t \notin {"dict", "list", "str"} THEN DeparseRaises("AssertionError")
  ELSE IF arg.t = "dict" /\ Len(arg.items) = 0 THEN DeparseRaises("IndexError")
  ELSE IF arg.t = "list" THEN DeparseRaises("UnboundLocalError")
  ELSE
    LET detail == arg.name IN
    IF detail = "iid" THEN Deparsed("None", "iid", detail, Some(FALSE), "None")
    ELSE IF detail \in {"hetero", "HC1", "HC2", "HC3"} THEN
      IF hc23_not_supported(detail, fixef, iv)
        THEN DeparseRaises("VcovTypeNotSupportedError")
      ELSE Deparsed("None", "hetero", detail, Some(FALSE), "None")
    ELSE IF detail \in {"CRV1", "CRV3"} THEN
      IF arg.t = "dict"
        THEN Deparsed("None", "CRV", detail, Some(TRUE),
                      IF arg.items[1].isstr THEN arg.items[1].s ELSE "")
        ELSE DeparseRaises("AttributeError")
    ELSE DeparseRaises("UnboundLocalError")

(* ------------------------------ get_vcov ------------------------------ *)

\* The model an operation runs on: the attributes get_vcov reads.
Model(d, fixef, iv, meth, si, sc, n, kk, w, fitted, txz, design, x) ==
  [data |-> d, has_fixef |-> fixef, is_iv |-> iv, method |-> meth,
   support_iid |-> si, support_crv3 |-> sc, N |-> n, k |-> kk,
   wsize |-> w.rows * w.cols, fitted |-> fitted, tXZ |-> txz, design |-> design,
   X |-> x]

\* get_ssc of pyfixest.ssc_utils: a scalar depending on (N, k, G, vcov_type).
get_ssc(n, kk, g, vt) == [vcov_type |-> vt, N |-> n, k |-> kk, G |-> g]

\* pd.factorize: the distinct labels in order of first appearance.
RECURSIVE factorize(_)
factorize(col) ==
  IF col = <<>> THEN <<>>
  ELSE LET rest == factorize(SubSeq(col, 1, Len(col) - 1))
           last == col[Len(col)]
       IN IF \E i \in 1..Len(rest) : rest[i] = last THEN rest ELSE Append(rest, last)

\* cluster_count counting the rows instead of the distinct labels.
cluster_count_rows(cluster_df) == Len(cluster_df)

\* self.G = len(clustid), with clustid the labels pd.factorize found.
cluster_count(cluster_df) == Len(factorize(cluster_df))

\* crv3_guard without the IV test.
crv3_guard_no_iv(iv, support_crv3) ==
  IF ~support_crv3 THEN "NotImplementedError" ELSE "None"

\* The guards of the CRV3 branch: the exception raised, or "None".
crv3_guard(iv, support_crv3) ==
  IF iv THEN "VcovTypeNotSupportedError"
  ELSE IF ~support_crv3 THEN "NotImplementedError"
  ELSE "None"

\* The guard of the iid branch.
iid_guard(support_iid) ==
  IF ~support_iid THEN "NotImplementedError" ELSE "None"

\* cluster_df.isna().any()
isna_any(col) == \E i \in 1..Len(col) : col[i].t = "nan"

\* cluster_df == g: the rows whose label is g.
rows_of_label(col, g) == {i \in 1..Len(col) : col[i] = g}

\* np.equal(ixg, group): the rows whose label equals the loop index ixg (a
\* number); a label that is not a number equals no index.
rows_np_equal(ixg, col) == {i \in 1..Len(col) : col[i].t = "int" /\ col[i].v = ixg}

\* The outcome of a get_vcov call: whether the fields were reset (the call got
\* past reading the fitted attributes), the exception, the steps performed, and
\* the values of the fields at the end.
Out(e, ops, d, g, s, v) ==
  [reset |-> TRUE, err |-> e, ops |-> ops,
   vcov_type |-> d.vcov_type, vcov_type_detail |-> d.vcov_type_detail,
   is_clustered |-> d.is_clustered, clustervar |-> d.clustervar,
   G |-> g, ssc |-> s, vcov |-> v]
NotFitted ==
  [reset |-> FALSE, err |-> "AttributeError", ops |-> <<>>,
   vcov_type |-> "None", vcov_type_detail |-> "None", is_clustered |-> NoneOpt,
   clustervar |-> "None", G |-> NoneOpt, ssc |-> NoSsc, vcov |-> NoMat]

\* The "iid" branch.
vcov_iid(me, d, ops) ==
  IF iid_guard(me.support_iid) # "None"
    THEN Out(iid_guard(me.support_iid), ops, d, NoneOpt, NoSsc, NoMat)
  ELSE LET s == get_ssc(me.N, me.k, 1, "iid") IN
       Out("None", ops \o <<"get_ssc", "vcov">>, d, NoneOpt, s,
           Mat(d.vcov_type_detail, me.design, me.is_iv, <<>>, s))

\* The HC2/HC3 rescaling: the scores are divided by sqrt(1 - leverage) (HC2) or
\* by 1 - leverage (HC3), whatever the leverage is; numpy divides by zero
\* without raising, and the quotient is infinite or NaN.
hc23_rescale(x) == IF x.lev_one THEN "zero" ELSE "positive"

\* The "hetero" branch (hetero, HC1, HC2, HC3).
vcov_hetero(me, d, ops) ==
  LET s == get_ssc(me.N, me.k, 1, "hetero") IN
  IF d.vcov_type_detail \in {"HC2", "HC3"} /\ me.is_iv
    THEN Out("VcovTypeNotSupportedError", ops \o <<"get_ssc">>, d, NoneOpt, s, NoMat)
  ELSE LET hc23 == d.vcov_type_detail \in {"HC2", "HC3"}
           lev == IF hc23 THEN <<"inv", "leverage">> ELSE <<>>
       IN Out("None", ops \o <<"get_ssc">> \o lev \o <<"meat", "vcov">>, d, NoneOpt, s,
              [Mat(d.vcov_type_detail, me.design, me.is_iv, <<>>, s)
                 EXCEPT !.divisor = IF hc23 THEN hc23_rescale(me.X) ELSE "none"])

\* The CRV3 jackknife: iteration ixg = 0 .. G-1 leaves out the rows selected by
\* np.equal(ixg, group), on the fast path and on the refit path alike.
crv3_left_out(col, n_groups) ==
  [g \in 1..n_groups |-> rows_np_equal(g - 1, col)]

\* The CRV1 meat: one score per label g of clustid, over the rows cluster_df == g.
crv1_groups(col, clustid) ==
  [g \in 1..Len(clustid) |-> rows_of_label(col, clustid[g])]

\* The "CRV" branch (CRV1, CRV3).
vcov_crv(me, d, ops) ==
  IF me.data.isNone \/ d.clustervar \notin Columns(me.data)
    THEN Out(IF me.data.isNone THEN "TypeError" ELSE "KeyError", ops, d,
             NoneOpt, NoSsc, NoMat)
  ELSE
  LET cluster_df == me.data.c IN
  IF isna_any(cluster_df)
    THEN Out("NanInClusterVarError", ops \o <<"isna">>, d, NoneOpt, NoSsc, NoMat)
  ELSE
  LET clustid == factorize(cluster_df)
      n_groups == cluster_count(cluster_df)
      s == get_ssc(me.N, me.k, n_groups, "CRV")
      ops2 == ops \o <<"isna", "factorize", "get_ssc">>
  IN
  IF d.vcov_type_detail = "CRV1" THEN
    IF me.wsize # me.N /\ me.wsize # 1
      THEN Out("ValueError", ops2, d, Some(n_groups), s, NoMat)
      ELSE Out("None", ops2 \o <<"meat", "vcov">>, d, Some(n_groups), s,
               Mat("CRV1", me.design, me.is_iv, crv1_groups(cluster_df, clustid), s))
  ELSE IF d.vcov_type_detail = "CRV3" THEN
    IF crv3_guard(me.is_iv, me.support_crv3) # "None"
      THEN Out(crv3_guard(me.is_iv, me.support_crv3), ops2, d, Some(n_groups), s, NoMat)
    ELSE Out("None",
             ops2 \o <<IF me.has_fixef THEN "refit" ELSE "pinv", "vcov">>,
             d, Some(n_groups), s,
             Mat("CRV3", me.design, me.is_iv, crv3_left_out(cluster_df, n_groups), s))
  ELSE Out("None", ops2, d, Some(n_groups), s, NoMat)

\* Feols.get_vcov(vcov) on model me.
get_vcov(me, arg) ==
  IF ~me.fitted THEN NotFitted
  ELSE
  LET none == DeparseRaises("None")
      c == check_vcov_input(arg, me.data)
  IN
  IF c # "None"
    THEN Out(c, <<"reset", "check_vcov_input">>, none, NoneOpt, NoSsc, NoMat)
  ELSE
  LET d == deparse_vcov_input(arg, me.has_fixef, me.is_iv)
      ops1 == <<"reset", "check_vcov_input", "deparse_vcov_input">>
  IN
  IF d.err # "None" THEN Out(d.err, ops1, none, NoneOpt, NoSsc, NoMat)
  ELSE IF me.is_iv /\ d.vcov_type \in {"CRV3"}
    THEN Out("VcovTypeNotSupportedError", ops1, d, NoneOpt, NoSsc, NoMat)
  ELSE IF me.is_iv /\ me.tXZ # "set"
    THEN Out("TypeError", ops1, d, NoneOpt, NoSsc, NoMat)
  ELSE
  LET ops2 == ops1 \o <<"bread">> IN
  IF d.vcov_type = "iid" THEN vcov_iid(me, d, ops2)
  ELSE IF d.vcov_type = "hetero" THEN vcov_hetero(me, d, ops2)
  ELSE IF d.vcov_type = "CRV" THEN vcov_crv(me, d, ops2)
  ELSE Out("None", ops2, d, NoneOpt, NoSsc, NoMat)

Self ==
  Model(data, has_fixef, is_iv, method, support_iid_inference,
        support_crv3_inference, N, k, weights, beta_hat = "set", tXZ, "X", X)

\* GetVcov keeping the fields of the call before when the call raises.
GetVcov_keeps_fields(arg) ==
  /\ obj = "alive"
  /\ LET r == get_vcov(Self, arg) IN
     /\ vcov_err' = r.err /\ vcov_ops' = r.ops
     /\ IF r.reset
        THEN /\ vcov_arg' = arg
             /\ IF r.err = "None"
                THEN /\ vcov_type' = r.vcov_type
                     /\ vcov_type_detail' = r.vcov_type_detail
                     /\ is_clustered' = r.is_clustered /\ clustervar' = r.clustervar
                     /\ G' = r.G /\ ssc' = r.ssc /\ vcov' = r.vcov
                ELSE UNCHANGED vcov_fields
        ELSE UNCHANGED <<vcov_arg, vcov_fields>>
  /\ inference_current' = FALSE
  /\ UNCHANGED <<se, df, pvalue_dist, inf_err>>
  /\ UNCHANGED <<ctor_vars, enrich_vars, fit_vars, ftest_vars, anc_vars>>

\* Feols.get_vcov(vcov) on this object: the fields are reset once the fitted
\* attributes were read, and hold what the call assigned before it returned or
\* raised.
GetVcov(arg) ==
  /\ obj = "alive"
  /\ LET r == get_vcov(Self, arg) IN
     /\ vcov_err' = r.err /\ vcov_ops' = r.ops
     /\ IF r.reset
        THEN /\ vcov_arg' = arg
             /\ vcov_type' = r.vcov_type /\ vcov_type_detail' = r.vcov_type_detail
             /\ is_clustered' = r.is_clustered /\ clustervar' = r.clustervar
             /\ G' = r.G /\ ssc' = r.ssc /\ vcov' = r.vcov
        ELSE UNCHANGED <<vcov_arg, vcov_fields>>
  /\ inference_current' = FALSE
  /\ UNCHANGED <<se, df, pvalue_dist, inf_err>>
  /\ UNCHANGED <<ctor_vars, enrich_vars, fit_vars, ftest_vars, anc_vars>>

(* ---------------------------- get_inference --------------------------- *)

\* get_inference_df always taking N - k.
get_inference_df_residual(vt, n, kk, g) == Some(n - kk)

\* Feols.get_inference: the exception raised ("None" if it completes), the
\* standard errors, the degrees of freedom computed and the distribution used.
get_inference_df(vt, n, kk, g) ==
  IF vt \in {"iid", "hetero"} THEN Some(n - kk)
  ELSE IF g = NoneOpt THEN NoneOpt
  ELSE Some(g[1] - 1)

GetInference ==
  /\ obj = "alive"
  /\ inference_current' = TRUE
  /\ IF vcov.kind = "Unset" \/ beta_hat # "set"
     THEN /\ inf_err' = "AttributeError" /\ df' = NoneOpt
          /\ UNCHANGED <<se, pvalue_dist>>
     ELSE IF vcov.kind = "None"
     THEN /\ inf_err' = "ValueError" /\ df' = NoneOpt
          /\ se' = "None" /\ pvalue_dist' = "None"
     ELSE LET d == get_inference_df(vcov_type, N, k, G) IN
          IF d = NoneOpt
          THEN /\ inf_err' = "TypeError" /\ df' = NoneOpt
               /\ se' = "set" /\ pvalue_dist' = "None"
          ELSE /\ inf_err' = "None"
               /\ se' = "set" /\ df' = d
               /\ pvalue_dist' = IF method = "feols" THEN "t" ELSE "norm"
  /\ UNCHANGED <<ctor_vars, enrich_vars, fit_vars, vcov_fields, vcov_call, ftest_vars, anc_vars>>

Next ==
  \/ \E y \in VectorInputs, x \in DesignInputs, w \in VectorInputs, fam \in Families :
       Construct(y, x, w, fam)
  \/ \E col \in UNION {[1..n -> ClusterLabels] : n \in RowCounts}, fx \in BOOLEAN :
       Enrich(col, fx)
  \/ GetFit
  \/ \E arg \in VcovArgs : GetVcov(arg)
  \/ GetInference

Spec == Init /\ [][Next]_vars

(* ------------------------------ get_Ftest ----------------------------- *)

\* The first-stage regression of get_Ftest, Feols(self.Y, self.Z, self.Z) after
\* its get_fit: a fresh base-class instance (no dataset, no fixed effects, not
\* IV) whose design is the instrument matrix Z, which has the shape of X.
first_stage(z) ==
  Model(NoData, FALSE, FeolsAttrs.is_iv, FeolsAttrs.method, FeolsAttrs.support_iid,
        FeolsAttrs.support_crv3, z.rows, z.cols, z, TRUE, "None", "Z", z)

\* Feols.get_Ftest(vcov): the exception raised, the value of the local variable
\* vcov after the if/else, and the matrix the statistic is computed with.
get_Ftest(me, own_vcov, y, z, arg) ==
  IF ~me.fitted THEN [err |-> "AttributeError", local |-> UnsetMat, used |-> UnsetMat]
  ELSE
  LET fs_init == feols_input_checks(y, z, z)
      fs_fit == get_fit_err(y, z)
      fs == get_vcov(first_stage(z), arg)
      early == IF ~me.is_iv
                 THEN IF own_vcov.kind = "Unset" THEN "AttributeError" ELSE "None"
               ELSE IF fs_init # "None" THEN fs_init
               ELSE IF fs_fit # "None" THEN fs_fit
               ELSE fs.err
      local == IF me.is_iv THEN fs.vcov ELSE own_vcov
  IN
  IF early # "None" THEN [err |-> early, local |-> UnsetMat, used |-> UnsetMat]
  ELSE IF own_vcov.kind = "Unset"
    THEN [err |-> "AttributeError", local |-> local, used |-> UnsetMat]
  ELSE IF own_vcov.kind = "None"
    THEN [err |-> "ValueError", local |-> local, used |-> UnsetMat]
  ELSE [err |-> "None", local |-> local, used |-> own_vcov]

GetFtest(arg) ==
  /\ obj = "alive"
  /\ LET r == get_Ftest(Self, vcov, Y, X, arg) IN
     /\ ftest_err' = r.err
     /\ IF r.err = "None"
        THEN F_stat' = r.used /\ ftest_vcov' = r.local
        ELSE UNCHANGED <<F_stat, ftest_vcov>>
  /\ UNCHANGED <<ctor_vars, enrich_vars, fit_vars, vcov_fields, vcov_call, inf_vars,
                 anc_vars>>

\* The requests of the F-test specification.
FtestArgs == {StrReq("iid"), StrReq("HC1"), DictReq("CRV1", StrVal("c"))}

NextFtest ==
  \/ \E y \in VectorInputs, x \in DesignInputs, w \in VectorInputs, fam \in Families :
       Construct(y, x, w, fam)
  \/ \E col \in UNION {[1..n -> ClusterLabels] : n \in RowCounts}, fx \in BOOLEAN :
       Enrich(col, fx)
  \/ GetFit
  \/ \E arg \in FtestArgs : GetVcov(arg)
  \/ \E arg \in FtestArgs : GetFtest(arg)

SpecFtest == Init /\ [][NextFtest]_vars

(* --------------------- designs with a leverage of 1 ------------------- *)

\* The heteroskedasticity-robust requests.
HeteroArgs == {StrReq("hetero"), StrReq("HC1"), StrReq("HC2"), StrReq("HC3")}

NextLeverage ==
  \/ \E y \in VectorInputs, x \in DesignInputs \cup LeverageOneDesigns,
        w \in VectorInputs, fam \in Families :
       Construct(y, x, w, fam)
  \/ \E col \in UNION {[1..n -> ClusterLabels] : n \in RowCounts}, fx \in BOOLEAN :
       Enrich(col, fx)
  \/ GetFit
  \/ \E arg \in HeteroArgs : GetVcov(arg)
  \/ GetInference

SpecLeverage == Init /\ [][NextLeverage]_vars

(* ------------------------------- predict ------------------------------ *)

\* The number of "|" in _fml, the formula set from outside the class: one before
\* the fixed-effects part when the model has one ("Y ~ X1 | f1"), and one before
\* the first-stage part of an IV formula.
fml_bars(fixef, iv) == (IF fixef THEN 1 ELSE 0) + (IF iv THEN 1 ELSE 0)

PredictTypes == {"link", "response", "terms"}

\* Feols.predict(data, type) on model me whose _fml and _data were set from
\* outside (has_fml) or are still None. u_hat and beta_hat are read first; with
\* new data, fml_linear, _ = _fml.split("|") needs exactly one "|".
predict(me, has_fml, newdata, type) ==
  LET on == CallState(me.fitted, has_fml, me.has_fixef, me.is_iv, me.method) IN
  IF ~me.fitted THEN PredictCall(on, newdata, type, "AttributeError", "None")
  ELSE IF type \notin {"response", "link"}
    THEN PredictCall(on, newdata, type, "ValueError", "None")
  ELSE IF ~has_fml THEN PredictCall(on, newdata, type, "AttributeError", "None")
  ELSE IF ~newdata THEN
    IF me.data.isNone THEN PredictCall(on, newdata, type, "TypeError", "None")
    ELSE PredictCall(on, newdata, type, "None", "Y - u_hat")
  ELSE IF fml_bars(me.has_fixef, me.is_iv) # 1
    THEN PredictCall(on, newdata, type, "ValueError", "None")
  ELSE PredictCall(on, newdata, type, "None", "X_new @ beta_hat")

Predict(newdata, type) ==
  /\ obj = "alive"
  /\ predicted' = predict(Self, enriched, newdata, type)
  /\ UNCHANGED <<ctor_vars, enrich_vars, fit_vars, vcov_fields, vcov_call, inf_vars,
                 ftest_vars, boot_vars, fixef_vars>>

NextPredict ==
  \/ \E y \in VectorInputs, x \in DesignInputs, w \in VectorInputs, fam \in Families :
       Construct(y, x, w, fam)
  \/ \E col \in UNION {[1..n -> ClusterLabels] : n \in RowCounts}, fx \in BOOLEAN :
       Enrich(col, fx)
  \/ GetFit
  \/ \E arg \in FtestArgs : GetVcov(arg)
  \/ \E newdata \in BOOLEAN, type \in PredictTypes : Predict(newdata, type)

SpecPredict == Init /\ [][NextPredict]_vars

(* -------------------------- get_wildboottest -------------------------- *)

\* The largest number of coefficient names.
MaxCoefs == 2
ParamNames == {"x1", "x2", "x3"}
\* _coefnames as set from outside: a list of distinct names.
CoefNameLists ==
  {l \in UNION {[1..n -> ParamNames] : n \in 1..MaxCoefs} :
     \A i, j \in 1..Len(l) : l[i] = l[j] => i = j}

\* _xnames.index(param): the first position of param.
index(xnames, param) ==
  CHOOSE i \in 1..Len(xnames) :
    xnames[i] = param /\ \A j \in 1..(i - 1) : xnames[j] # param

\* restriction_vector setting the first entry, whatever the parameter is.
restriction_vector_first(xnames, param) ==
  [i \in 1..Len(xnames) |-> IF i = 1 THEN 1 ELSE 0]

\* R = np.zeros(len(_xnames)); R[_xnames.index(param)] = 1
restriction_vector(xnames, param) ==
  [i \in 1..Len(xnames) |-> IF i = index(xnames, param) THEN 1 ELSE 0]

\* Feols.get_wildboottest(cluster = cluster, param = param, ...) on model me
\* with coefficient names names; reported is the full-enumeration flag the
\* cluster bootstrap's get_weights returns. The subroutine is a black box that
\* completes.
get_wildboottest(me, names, param, cluster, reported) ==
  LET on == CallState(me.fitted, ~me.data.isNone, me.has_fixef, me.is_iv, me.method)
      Raises(e, R) == BootCall(on, param, cluster, e, "None", R, FALSE, FALSE, FALSE)
  IN
  IF me.is_iv THEN Raises("VcovTypeNotSupportedError", <<>>)
  ELSE IF me.has_fixef THEN Raises("VcovTypeNotSupportedError", <<>>)
  ELSE IF names = NoneOpt THEN Raises("TypeError", <<>>)
  ELSE IF \A i \in 1..Len(names[1]) : names[1][i] # param
    THEN Raises("ValueError", <<>>)
  ELSE
  LET R == restriction_vector(names[1], param) IN
  IF cluster = "None"
    THEN BootCall(on, param, cluster, "None", "WildboottestHC", R, FALSE, FALSE, TRUE)
  ELSE IF me.data.isNone THEN Raises("TypeError", R)
  ELSE IF cluster \notin Columns(me.data) THEN Raises("KeyError", R)
  ELSE BootCall(on, param, cluster, "None", "WildboottestCL", R, reported, reported,
                TRUE)

GetWildboottest(param, cluster, reported) ==
  /\ obj = "alive"
  /\ boot' = get_wildboottest(Self, coefnames, param, cluster, reported)
  /\ UNCHANGED <<ctor_vars, enrich_vars, fit_vars, vcov_fields, vcov_call, inf_vars,
                 ftest_vars, predicted, coefnames, fixef_vars>>

\* _coefnames is set from outside, with the dataset.
EnrichCoefnames(names) ==
  /\ obj = "alive" /\ enriched /\ coefnames = NoneOpt /\ ~boot.called
  /\ coefnames' = Some(names)
  /\ UNCHANGED <<ctor_vars, enrich_vars, fit_vars, vcov_fields, vcov_call, inf_vars,
                 ftest_vars, predicted, boot, fixef_vars>>

\* The datasets of the bootstrap specification: one cluster.
BootColumns == {[i \in 1..n |-> Lab("int", 0)] : n \in RowCounts}
ClusterArgs == {"None", "c", "z"}

NextBoot ==
  \/ \E y \in VectorInputs, x \in DesignInputs, w \in VectorInputs, fam \in Families :
       Construct(y, x, w, fam)
  \/ \E col \in BootColumns, fx \in BOOLEAN : Enrich(col, fx)
  \/ \E names \in CoefNameLists : EnrichCoefnames(names)
  \/ GetFit
  \/ \E param \in ParamNames, cluster \in ClusterArgs, reported \in BOOLEAN :
       GetWildboottest(param, cluster, reported)

SpecBoot == Init /\ [][NextBoot]_vars

(* -------------------------------- fixef ------------------------------- *)

\* The largest number of fixed-effect variables of a formula, and of dummy
\* columns of one variable.
MaxFixefVars == 2
MaxLevels == 2

\* The names a fixed-effect variable can have, in the order np.unique sorts them.
FixefNames == <<"firm", "group", "year">>
FixefVar(name, ncols) == [name |-> name, ncols |-> ncols]
\* The fixed-effects part of a formula: distinct variables, each with the
\* number of its levels that have a column in the dummy matrix D2.
FixefFormulas ==
  {f \in UNION {[1..n -> {FixefVar(FixefNames[i], c) :
                            i \in 1..Len(FixefNames), c \in 1..MaxLevels}] :
                  n \in 1..MaxFixefVars} :
     \A i, j \in 1..Len(f) : f[i].name = f[j].name => i = j}

\* D2.columns: the columns "var[T.level]" of model_matrix("-1+" + fixef_vars),
\* variable by variable in the order of the formula, split into var and level
\* as the loop of lines 622-625 does.
RECURSIVE fixef_cols(_)
fixef_cols(fvars) ==
  IF fvars = <<>> THEN <<>>
  ELSE LET last == fvars[Len(fvars)] IN
       fixef_cols(SubSeq(fvars, 1, Len(fvars) - 1))
         \o [l \in 1..last.ncols |-> [var |-> last.name, level |-> l]]

\* np.unique(var): the distinct variable names, sorted.
np_unique(cols) ==
  SelectSeq(FixefNames, LAMBDA n : \E i \in 1..Len(cols) : cols[i].var = n)

\* seq[a : b] of Python, with 0 <= a <= b.
py_slice(seq, a, b) ==
  SubSeq(seq, a + 1, IF b < Len(seq) THEN b ELSE Len(seq))

\* ki = len(list(filter(lambda x: x == "group", var)))
count_group(cols) == Cardinality({i \in 1..Len(cols) : cols[i].var = "group"})

\* The loop of lines 628-638 over the names left: each name x gets the table of
\* the slice [ki_start : ki + ki_start] of the levels and of alpha (the effect
\* of column i is written i), and ki_start becomes ki.
RECURSIVE fixef_loop(_, _, _, _)
fixef_loop(names, ki_start, cols, dict) ==
  IF names = <<>> THEN dict
  ELSE LET ki == count_group(cols)
           rows == [i \in 1..Len(cols) |-> [level |-> cols[i].level, value |-> i]]
           fe_dict == py_slice(rows, ki_start, ki + ki_start)
       IN fixef_loop(Tail(names), ki, cols, dict @@ (Head(names) :> fe_dict))

\* Feols.fixef() on model me whose formula has the fixed-effects part fml: the
\* exception raised, and the fixef_dict and sumFE assigned.
fixef(me, fml) ==
  LET Raises(e) == [err |-> e, fixef_dict |-> NoneOpt, sumFE |-> "None"] IN
  IF ~me.has_fixef THEN Raises("ValueError")
  ELSE IF me.is_iv THEN Raises("NotImplementedError")
  ELSE IF me.method = "fepois" THEN Raises("NotImplementedError")
  ELSE IF fml = <<>> \/ me.data.isNone THEN Raises("AttributeError")
  ELSE IF ~me.fitted THEN Raises("AttributeError")
  ELSE LET cols == fixef_cols(fml) IN
       [err |-> "None",
        fixef_dict |-> Some(fixef_loop(np_unique(cols), 0, cols, [n \in {} |-> <<>>])),
        sumFE |-> "D2 @ alpha"]

Fixef ==
  /\ obj = "alive"
  /\ LET r == fixef(Self, fml_fixef) IN
     /\ fixef_err' = r.err
     /\ IF r.err = "None"
        THEN fixef_dict' = r.fixef_dict /\ sumFE' = r.sumFE
        ELSE UNCHANGED <<fixef_dict, sumFE>>
  /\ UNCHANGED <<ctor_vars, enrich_vars, fit_vars, vcov_fields, vcov_call, inf_vars,
                 ftest_vars, predicted, boot_vars, fml_fixef>>

\* _fml is set from outside, with the dataset: its fixed-effects part.
EnrichFixef(fvars) ==
  /\ obj = "alive" /\ enriched /\ has_fixef
  /\ fml_fixef = <<>> /\ fixef_err = "Unset"
  /\ fml_fixef' = fvars
  /\ UNCHANGED <<ctor_vars, enrich_vars, fit_vars, vcov_fields, vcov_call, inf_vars,
                 ftest_vars, predicted, boot_vars, fixef_dict, sumFE, fixef_err>>

NextFixef ==
  \/ \E y \in VectorInputs, x \in DesignInputs, w \in VectorInputs, fam \in Families :
       Construct(y, x, w, fam)
  \/ \E col \in BootColumns, fx \in BOOLEAN : Enrich(col, fx)
  \/ \E fvars \in FixefFormulas : EnrichFixef(fvars)
  \/ GetFit
  \/ Fixef

SpecFixef == Init /\ [][NextFixef]_vars

(* ------------------------------- claims ------------------------------- *)

Steps(ops) == {ops[i] : i \in 1..Len(ops)}
\* The steps of get_vcov that invert or multiply matrices.
MatrixSteps == {"bread", "inv", "leverage", "meat", "pinv", "refit", "vcov"}
ThroughValidation == <<"reset", "check_vcov_input">>
ThroughResolution == <<"reset", "check_vcov_input", "deparse_vcov_input">>

\* A get_vcov call has run on the fitted model; the VCOV fields, vcov_err and
\* vcov_ops are those of the last such call, and vcov_arg is its argument.
Called == vcov_arg # NoReq
Completed == Called /\ vcov_err = "None"

LabelsOf(col) == {col[i] : i \in 1..Len(col)}
DistinctLabels(col) == Cardinality(LabelsOf(col))
NoMissing == ~data.isNone /\ ~isna_any(data.c)

\* C1: on a fitted model with fixed effects or IV, get_vcov("HC2") and
\* get_vcov("HC3") raise VcovTypeNotSupportedError in request resolution, before
\* the bread matrix is computed; no VCOV is stored and the request is not
\* resolved to the hetero regime.
C1_HC23Rejected ==
  (vcov_arg \in {StrReq("HC2"), StrReq("HC3")} /\ (has_fixef \/ is_iv)) =>
    /\ vcov_err = "VcovTypeNotSupportedError"
    /\ vcov_ops = ThroughResolution
    /\ vcov = NoMat /\ vcov_type = "None" /\ vcov_type_detail = "None"

C1_Witness ==
  /\ vcov_arg = StrReq("HC3") /\ has_fixef /\ ~is_iv
  /\ vcov_err = "VcovTypeNotSupportedError" /\ vcov = NoMat

\* C2: when get_vcov raises NanInClusterVarError, no matrix inversion or product
\* of get_vcov (in particular the bread) has been computed.
C2_NanErrorBeforeAnyMatrix ==
  vcov_err = "NanInClusterVarError" => Steps(vcov_ops) \cap MatrixSteps = {}

\* C3: in a completed CRV3 jackknife every observation is left out exactly once,
\* and the left-out sets are the clusters of the partition, whatever the labels.
C3_JackknifeLeavesOutClusters ==
  (Completed /\ vcov.kind = "CRV3") =>
    /\ \A i \in 1..N :
         Cardinality({g \in 1..Len(vcov.groups) : i \in vcov.groups[g]}) = 1
    /\ {vcov.groups[g] : g \in 1..Len(vcov.groups)}
         = {rows_of_label(data.c, l) : l \in LabelsOf(data.c)}

\* C4: a request that passed validation is resolved to a tuple with vcov_type in
\* {iid, hetero, CRV}, is_clustered = (vcov_type = CRV) and cluster_variable the
\* named column when clustered (None otherwise), or resolution raises the
\* unsupported-combination error; it raises nothing else.
C4_ValidRequestResolved ==
  (Called /\ Len(vcov_ops) >= Len(ThroughResolution)) =>
    \/ /\ vcov_err = "VcovTypeNotSupportedError" /\ vcov_ops = ThroughResolution
       /\ vcov_arg.name \in {"HC2", "HC3"} /\ (has_fixef \/ is_iv)
    \/ /\ vcov_type \in {"iid", "hetero", "CRV"}
       /\ is_clustered = Some(vcov_type = "CRV")
       /\ clustervar = IF vcov_type = "CRV" /\ vcov_arg.t = "dict"
                         THEN vcov_arg.items[1].s ELSE "None"

\* C5 (as stated): after a get_vcov call that completes, G is the number of
\* distinct clusters when the request is clustered and 1 when it is not.
C5_GIsOneWhenNotClustered ==
  Completed =>
    G = IF is_clustered = Some(TRUE) THEN Some(DistinctLabels(data.c)) ELSE Some(1)

\* C5 (amended): after a get_vcov call that completes, G is the number of
\* distinct clusters when the request is clustered; when it is not clustered G is
\* None, and the small-sample correction was computed with G = 1.
C5_GIsNoneWhenNotClustered ==
  Completed =>
    /\ is_clustered \in {Some(TRUE), Some(FALSE)}
    /\ is_clustered = Some(TRUE) <=> vcov_arg.t = "dict"
    /\ is_clustered = Some(TRUE) =>
         G = Some(DistinctLabels(data.c)) /\ ssc.G = DistinctLabels(data.c)
    /\ is_clustered = Some(FALSE) => G = NoneOpt /\ ssc.G = 1

C5_Witness ==
  /\ Completed /\ vcov_arg = StrReq("HC1")
  /\ is_clustered = Some(FALSE) /\ G = NoneOpt /\ ssc.G = 1

\* A malformed request: not a string, mapping or list; an unknown tag; a mapping
\* whose key is not CRV1/CRV3 or whose value is not a string; a mapping or list
\* naming a column that is not in the dataset.
Malformed(arg, d) ==
  \/ arg.t = "other"
  \/ arg.t = "str" /\ arg.name \notin VcovTags
  \/ arg.t = "dict" /\ arg.name \notin CrvKeys
  \/ arg.t = "dict" /\ \E i \in 1..Len(arg.items) : ~arg.items[i].isstr
  \/ /\ arg.t \in {"dict", "list"}
     /\ \E i \in 1..Len(arg.items) :
          arg.items[i].isstr /\ (d.isNone \/ arg.items[i].s \notin Columns(d))

\* C6: a malformed request makes get_vcov fail in validation: before request
\* resolution and before any matrix operation.
C6_MalformedFailsInValidation ==
  (Called /\ Malformed(vcov_arg, data)) =>
    /\ vcov_err # "None"
    /\ vcov_ops = ThroughValidation
    /\ vcov = NoMat /\ vcov_type = "None"

C6_Witness ==
  /\ vcov_arg = DictReq("CRV1", StrVal("z")) /\ ~data.isNone
  /\ vcov_err = "AssertionError" /\ vcov_ops = ThroughValidation

\* C7: {"CRV3": c} (c a column without missing values) on an IV model raises
\* VcovTypeNotSupportedError, and on a family without CRV3 support the
\* CRV3-not-supported error; "iid" on a family without iid support raises the
\* iid-not-supported error; none stores a VCOV. When get_vcov completes, the
\* stored vcov_type_detail (and the regime of the VCOV) is the requested one.
C7_UnservedRequestsRejected ==
  /\ (vcov_arg = DictReq("CRV3", StrVal("c")) /\ NoMissing /\ is_iv) =>
       vcov_err = "VcovTypeNotSupportedError" /\ vcov = NoMat
  /\ (vcov_arg = DictReq("CRV3", StrVal("c")) /\ NoMissing /\ ~is_iv
        /\ ~support_crv3_inference) =>
       vcov_err = "NotImplementedError" /\ vcov = NoMat
  /\ (vcov_arg = StrReq("iid") /\ ~support_iid_inference) =>
       vcov_err = "NotImplementedError" /\ vcov = NoMat
  /\ Completed =>
       /\ vcov_arg.t \in {"str", "dict"}
       /\ vcov_type_detail = vcov_arg.name /\ vcov.kind = vcov_arg.name

C7_Witness ==
  /\ vcov_arg = DictReq("CRV3", StrVal("c")) /\ NoMissing /\ is_iv
  /\ vcov_err = "VcovTypeNotSupportedError" /\ vcov = NoMat

\* C8: every instance the constructor accepts has Y, X and weights 2-dimensional
\* arrays with the same number of rows N.
C8_AcceptedInputsShareRows ==
  obj = "alive" =>
    /\ Y.isarr /\ X.isarr /\ weights.isarr
    /\ Y.ndim = 2 /\ X.ndim = 2 /\ weights.ndim = 2
    /\ Y.rows = N /\ X.rows = N /\ weights.rows = N

\* C9: the F statistic a completed get_Ftest call stores is computed with the
\* VCOV the call selected: the first-stage regression's VCOV for an IV model, the
\* model's own VCOV otherwise.
C9_FtestUsesSelectedVcov ==
  (ftest_err = "None" /\ F_stat.kind # "Unset") =>
    /\ F_stat = ftest_vcov
    /\ is_iv => F_stat.design = "Z" /\ ~F_stat.iv
    /\ ~is_iv => F_stat.design = "X"

\* C10: a get_inference call that completes uses N - k degrees of freedom when
\* the most recent get_vcov request was a string tag (iid or hetero regime) and
\* (number of clusters) - 1 when it was clustered, whatever was requested before.
C10_DegreesOfFreedom ==
  (inference_current /\ inf_err = "None") =>
    /\ Completed /\ se = "set"
    /\ vcov_arg.t = "str" => vcov_type \in {"iid", "hetero"} /\ df = Some(N - k)
    /\ vcov_arg.t # "str" =>
         vcov_type = "CRV" /\ df = Some(DistinctLabels(data.c) - 1)

C10_Witness ==
  /\ inference_current /\ inf_err = "None"
  /\ vcov_arg = DictReq("CRV1", StrVal("c"))
  /\ N = 2 /\ df = Some(0)

\* The regime a request names.
RegimeOf(arg) ==
  IF arg.t = "dict" THEN "CRV" ELSE IF arg.name = "iid" THEN "iid" ELSE "hetero"

\* C16: each get_vcov call recomputes the VCOV fields in full. After a get_vcov
\* call that raised, vcov is None (no VCOV of an earlier request is left), and a
\* get_inference call that follows fails and produces no standard errors; after
\* a get_vcov call that completed, vcov, ssc, vcov_type and vcov_type_detail are
\* all those of that call's request. No step that changes the VCOV fields
\* changes the fitted state.
C16_VcovRecomputedInFull ==
  /\ []((Called /\ vcov_err # "None") => vcov = NoMat)
  /\ []((inference_current /\ vcov_err # "None") =>
         (inf_err # "None" /\ se # "set"))
  /\ [](Completed =>
         /\ vcov.kind = vcov_arg.name /\ vcov_type_detail = vcov_arg.name
         /\ vcov_type = RegimeOf(vcov_arg)
         /\ ssc = vcov.ssc /\ ssc.vcov_type = vcov_type)
  /\ [][(<<vcov_fields, vcov_call>>' # <<vcov_fields, vcov_call>>) =>
         UNCHANGED fit_vars]_vars

C16_Witness ==
  /\ vcov_arg = DictReq("CRV1", StrVal("c"))
  /\ vcov_err = "NanInClusterVarError" /\ vcov = NoMat /\ vcov_type = "CRV"
  /\ inference_current /\ inf_err = "ValueError" /\ se = "None"

\* C14: get_vcov("HC2") and get_vcov("HC3") on a fitted non-IV model without
\* fixed effects raise and store no VCOV when some observation has leverage 1,
\* and no stored HC2/HC3 VCOV was computed by dividing by zero.
C14_LeverageOneRejected ==
  /\ (vcov_arg \in {StrReq("HC2"), StrReq("HC3")} /\ ~is_iv /\ ~has_fixef
        /\ X.lev_one) =>
       vcov_err # "None" /\ vcov = NoMat
  /\ vcov.kind \in {"HC2", "HC3"} => vcov.divisor = "positive"

\* The jackknife left no observation out: every leave-one-out estimate is the
\* full-sample estimate, and the CRV3 sum of outer products is the zero matrix.
ZeroJackknife(m) == \A g \in 1..Len(m.groups) : m.groups[g] = {}

\* C13: get_vcov({"CRV3": c}) on a fitted model whose column c puts all
\* observations into one cluster either raises and stores no VCOV, or stores the
\* zero matrix; it stores no other VCOV, whatever the label of the cluster is.
C13_SingleClusterCRV3 ==
  (vcov_arg = DictReq("CRV3", StrVal("c")) /\ NoMissing
     /\ DistinctLabels(data.c) = 1) =>
    \/ vcov_err # "None" /\ vcov = NoMat
    \/ Completed /\ vcov.kind = "CRV3" /\ ZeroJackknife(vcov)

\* C11: a predict call on a fitted model (its formula and dataset set) raises
\* ValueError for a type other than "link" and "response"; for a valid type and
\* new data it returns X_new @ beta_hat, whether or not the formula has a
\* fixed-effects part; for a valid type and no new data it returns the stored
\* fitted values, the response minus the residuals.
C11_PredictContract ==
  (predicted.called /\ predicted.on.fitted /\ predicted.on.has_fml) =>
    /\ predicted.type \notin {"link", "response"} =>
         predicted.err = "ValueError"
    /\ (predicted.type \in {"link", "response"} /\ predicted.newdata) =>
         predicted.err = "None" /\ predicted.y_hat = "X_new @ beta_hat"
    /\ (predicted.type \in {"link", "response"} /\ ~predicted.newdata) =>
         predicted.err = "None" /\ predicted.y_hat = "Y - u_hat"

\* C12: get_wildboottest on an IV model or a model with fixed effects raises
\* VcovTypeNotSupportedError, invokes no bootstrap subroutine and returns
\* nothing; when a subroutine is invoked, the restriction vector passed to it
\* has one entry per coefficient name, 1 at the position of the requested
\* parameter and 0 elsewhere; when the subroutine reports full enumeration, a
\* warning is issued and the result record is still returned. No
\* get_wildboottest call changes anything else of the model.
C12_BootstrapContract ==
  /\ [](boot.called =>
         /\ (boot.on.is_iv \/ boot.on.has_fixef) =>
              /\ boot.err = "VcovTypeNotSupportedError"
              /\ boot.sub = "None" /\ ~boot.returned
         /\ boot.sub # "None" =>
              /\ ~boot.on.is_iv /\ ~boot.on.has_fixef
              /\ coefnames # NoneOpt /\ Len(boot.R) = Len(coefnames[1])
              /\ \E p \in 1..Len(boot.R) :
                   /\ coefnames[1][p] = boot.param
                   /\ \A i \in 1..Len(boot.R) : boot.R[i] = IF i = p THEN 1 ELSE 0
         /\ boot.reported => boot.warned /\ boot.returned /\ boot.err = "None")
  /\ [][boot' # boot =>
         UNCHANGED <<ctor_vars, enrich_vars, fit_vars, vcov_fields, vcov_call,
                     inf_vars, ftest_vars, predicted, coefnames, fixef_vars>>]_vars

C12_Witness ==
  /\ boot.sub = "WildboottestCL" /\ boot.reported /\ boot.warned /\ boot.returned
  /\ coefnames = Some(<<"x1", "x2">>) /\ boot.param = "x2" /\ boot.R = <<0, 1>>

\* The table fixef should store for variable v: the levels of v that have a
\* column in D2, each with the effect of its own column.
LevelEffects(cols, v) ==
  SelectSeq([i \in 1..Len(cols) |-> [level |-> cols[i].level, value |-> i]],
            LAMBDA r : cols[r.value].var = v)

\* C15: a fixef() call that completes stores one table per fixed-effect
\* variable of the formula, keyed by the variable's name, and the table of
\* variable v holds exactly the level effects of v's own levels, so that every
\* recovered effect is in exactly one table; on a model without fixed effects,
\* an IV model or a Poisson model fixef() raises and stores nothing.
C15_FixefTables ==
  /\ (fixef_err # "Unset" /\ (~has_fixef \/ is_iv \/ method = "fepois")) =>
       fixef_err # "None" /\ fixef_dict = NoneOpt /\ sumFE = "None"
  /\ fixef_err = "None" =>
       LET cols == fixef_cols(fml_fixef)
           d == fixef_dict[1]
       IN /\ DOMAIN d = {fml_fixef[i].name : i \in 1..Len(fml_fixef)}
          /\ \A v \in DOMAIN d : d[v] = LevelEffects(cols, v)
          /\ \A i \in 1..Len(cols) :
               Cardinality({v \in DOMAIN d :
                 \E j \in 1..Len(d[v]) : d[v][j].value = i}) = 1

====
